---- MODULE Spec2Model ----
(***************************************************************************)
(* The network API of bollard (src/src/network.rs): the three operations   *)
(* create_network, remove_network and inspect_network of Docker, and the   *)
(* consuming wrappers of DockerChain.                                      *)
(*                                                                         *)
(* Text is modelled as a sequence of atoms (a name is a sequence such as   *)
(* <<"a", "/", "b">>), so that substitution into a path, splitting a path  *)
(* into its segments and rendering are computed, not assumed.  A HashMap   *)
(* carries its entries and the order its iterator yields them in: the      *)
(* order is fixed by the map's hasher, not by its entries.                 *)
(***************************************************************************)
EXTENDS Naturals, Sequences, FiniteSets, TLC

VARIABLES
    inflight,   \* the calls whose future has been started and has not resolved
    sends,      \* sends[id]: the requests call id has handed to the transport
    chain,      \* what the caller holds of the DockerChain handle
    last,       \* the call that resolved most recently
    chainLog    \* the ids of the chained calls that have resolved, in order

vars == <<inflight, sends, chain, last, chainLog>>

(* Bounds of the model. *)
MaxCalls == 2

(***************************************************************************)
(* Result<T, Error> and Option<T>.                                         *)
(***************************************************************************)
Ok(v) == [ok |-> TRUE, val |-> v]
Err(e) == [ok |-> FALSE, err |-> e]
None == [some |-> FALSE]
Some(v) == [some |-> TRUE, val |-> v]

(***************************************************************************)
(* The canonical boolean tokens (docker::TRUE_STR, docker::FALSE_STR, used *)
(* on line 120) and bool's Display form (to_string, used on line 129).     *)
(***************************************************************************)
TRUE_STR == "true"
FALSE_STR == "false"

bool_to_string(b) == IF b THEN "true" ELSE "false"

(***************************************************************************)
(* InspectNetworkQueryParams::into_array, the two implementations.         *)
(***************************************************************************)
\* mutant: the borrowed implementation leaves an empty scope out
into_array_str_skip_empty(self) ==
    Ok(<< <<"verbose", IF self.verbose THEN TRUE_STR ELSE FALSE_STR>> >>
       \o (IF self.scope = "" THEN <<>> ELSE << <<"scope", self.scope>> >>))

into_array_str(self) ==
    Ok(<< <<"verbose", IF self.verbose THEN TRUE_STR ELSE FALSE_STR>>,
          <<"scope", self.scope>> >>)

\* mutant: the owned implementation writes the boolean as a digit
into_array_String_digit(self) ==
    Ok(<< <<"verbose", IF self.verbose THEN "1" ELSE "0">>,
          <<"scope", self.scope>> >>)

into_array_String(self) ==
    Ok(<< <<"verbose", bool_to_string(self.verbose)>>,
          <<"scope", self.scope>> >>)

\* the implementation the type parameter of InspectNetworkOptions<T> selects
into_array(self) ==
    IF self.impl = "str" THEN into_array_str(self) ELSE into_array_String(self)

\* Docker::transpose_option: Option<Result<T>> to Result<Option<T>>
transpose_option(o) ==
    IF ~o.some THEN Ok(None)
    ELSE IF o.val.ok THEN Ok(Some(o.val.val))
    ELSE o.val

(***************************************************************************)
(* std::collections::HashMap<T, T> (line 12): the entries, and the order   *)
(* the map's iterator yields them in.  Two maps are equal (PartialEq) when *)
(* their entries are; the order depends on the hasher of the instance.     *)
(***************************************************************************)
HashMap_iter(m) == [i \in 1..Len(m.order) |-> <<m.order[i], m.entries[m.order[i]]>>]

HashMap_default == [entries |-> <<>>, order |-> <<>>]

(***************************************************************************)
(* derive(Serialize) with rename_all = "PascalCase": the fields in the     *)
(* order they are declared, under their wire names; a map is written by    *)
(* iterating it.                                                           *)
(***************************************************************************)
IPAM_default == [driver |-> "", config |-> <<>>, options |-> HashMap_default]

IPAM_serialize(ipam) ==
    << <<"Driver", ipam.driver>>,
       <<"Config", ipam.config>>,
       <<"Options", HashMap_iter(ipam.options)>> >>

CreateNetworkOptions_serialize(config) ==
    << <<"Name", config.name>>,
       <<"CheckDuplicate", config.check_duplicate>>,
       <<"Driver", config.driver>>,
       <<"Internal", config.internal>>,
       <<"Attachable", config.attachable>>,
       <<"Ingress", config.ingress>>,
       <<"IPAM", IPAM_serialize(config.ipam)>>,
       <<"EnableIPv6", config.enable_ipv6>>,
       <<"Options", HashMap_iter(config.options)>>,
       <<"Labels", HashMap_iter(config.labels)>> >>

(***************************************************************************)
(* The request side of Docker (docker.rs): serialize_payload,              *)
(* build_request, process_into_value and process_into_unit, as the call    *)
(* sites of network.rs use them.                                           *)
(***************************************************************************)
Body_empty == [kind |-> "empty"]

\* Docker::serialize_payload(Some(config)): the JSON text of the value
serialize_payload(config) == Ok([kind |-> "json", fields |-> CreateNetworkOptions_serialize(config)])

\* percent-encoding of the atoms that cannot stand in a path; "/" separates
\* the segments of the path build_request is handed and is left alone
PathEncodeAtom(a) ==
    CASE a = "?" -> "%3F"
      [] a = "#" -> "%23"
      [] a = "%" -> "%25"
      [] OTHER -> a

PathEncode(url) == [i \in 1..Len(url) |-> PathEncodeAtom(url[i])]

\* Docker::build_request(path, builder, query, payload): a request
\* descriptor, or the error of the query or of the payload
build_request(url, method, query, payload) ==
    IF ~query.ok THEN query
    ELSE IF ~payload.ok THEN payload
    ELSE Ok([method |-> method,
             path |-> PathEncode(url),
             query |-> IF query.val.some THEN query.val.val ELSE <<>>,
             body |-> payload.val])

\* Docker::process_into_value / process_into_unit: the future that hands the
\* request to the transport once and decodes the response as `expect`
process_request(self, req, expect) ==
    [session |-> self,
     req |-> req,
     reqs |-> IF req.ok THEN <<req.val>> ELSE <<>>,
     expect |-> expect]

process_into_value(self, req, expect) == process_request(self, req, expect)

process_into_unit(self, req) == process_request(self, req, "unit")

(***************************************************************************)
(* impl Docker: create_network, remove_network, inspect_network.           *)
(***************************************************************************)
\* format!("/networks/{}", network_name)
format_networks(network_name) == <<"/", "networks", "/">> \o network_name

Docker_create_network(self, config) ==
    LET url == <<"/", "networks", "/", "create">>
        req == build_request(url, "POST", Ok(None), serialize_payload(config))
    IN  process_into_value(self, req, "CreateNetworkResults")

\* mutant: the request is handed to the transport a second time
Docker_remove_network_twice(self, network_name) ==
    LET url == format_networks(network_name)
        req == build_request(url, "DELETE", Ok(None), Ok(Body_empty))
    IN  [process_into_unit(self, req) EXCEPT !.reqs = <<req.val, req.val>>]

Docker_remove_network(self, network_name) ==
    LET url == format_networks(network_name)
        req == build_request(url, "DELETE", Ok(None), Ok(Body_empty))
    IN  process_into_unit(self, req)

\* mutant: the options are not passed on as the query
Docker_inspect_network_no_query(self, network_name, options) ==
    LET url == format_networks(network_name)
        req == build_request(url, "GET", Ok(None), Ok(Body_empty))
    IN  process_into_value(self, req, "InspectNetworkResults")

Docker_inspect_network(self, network_name, options) ==
    LET url == format_networks(network_name)
        mapped == IF options.some THEN Some(into_array(options.val)) ELSE None
        req == build_request(url, "GET", transpose_option(mapped), Ok(Body_empty))
    IN  process_into_value(self, req, "InspectNetworkResults")

(***************************************************************************)
(* derive(Deserialize) with rename_all = "PascalCase" and                  *)
(* deny_unknown_fields.  A JSON object is a function from its keys to its  *)
(* values.  A key that is not a field of the struct is an error, and so is *)
(* a missing field that is not an Option.                                  *)
(***************************************************************************)
DecodeError == [kind |-> "DecodeError"]

Closed(obj, required, optional) ==
    /\ DOMAIN obj \subseteq (required \cup optional)
    /\ required \subseteq DOMAIN obj

\* mutant: the struct without deny_unknown_fields
CreateNetworkResults_deserialize_open(obj) ==
    IF {"Id", "Warning"} \subseteq DOMAIN obj
    THEN Ok([id |-> obj["Id"], warning |-> obj["Warning"]])
    ELSE Err(DecodeError)

CreateNetworkResults_deserialize(obj) ==
    IF Closed(obj, {"Id", "Warning"}, {})
    THEN Ok([id |-> obj["Id"], warning |-> obj["Warning"]])
    ELSE Err(DecodeError)

IPAMConfig_deserialize(obj) ==
    IF Closed(obj, {}, {"Subnet", "IPRange", "Gateway", "AuxAddress"})
    THEN Ok(obj)
    ELSE Err(DecodeError)

IPAM_deserialize(obj) ==
    IF /\ Closed(obj, {"Driver", "Config", "Options"}, {})
       /\ \A i \in DOMAIN obj["Config"] : IPAMConfig_deserialize(obj["Config"][i]).ok
    THEN Ok([driver |-> obj["Driver"], config |-> obj["Config"], options |-> obj["Options"]])
    ELSE Err(DecodeError)

InspectNetworkResultsContainers_deserialize(obj) ==
    IF Closed(obj, {"Name", "EndpointID", "MacAddress", "IPv4Address", "IPv6Address"}, {})
    THEN Ok([name |-> obj["Name"], endpoint_id |-> obj["EndpointID"],
             mac_address |-> obj["MacAddress"], ipv4_address |-> obj["IPv4Address"],
             ipv6_address |-> obj["IPv6Address"]])
    ELSE Err(DecodeError)

InspectNetworkResults_fields ==
    {"Name", "Id", "Created", "Scope", "Driver", "EnableIPv6", "IPAM", "Internal",
     "Attachable", "Ingress", "Containers", "Options", "Labels", "ConfigFrom", "ConfigOnly"}

InspectNetworkResults_deserialize(obj) ==
    IF /\ Closed(obj, InspectNetworkResults_fields, {})
       /\ IPAM_deserialize(obj["IPAM"]).ok
       /\ \A c \in DOMAIN obj["Containers"] :
              InspectNetworkResultsContainers_deserialize(obj["Containers"][c]).ok
    THEN Ok([name |-> obj["Name"], id |-> obj["Id"], created |-> obj["Created"],
             scope |-> obj["Scope"], driver |-> obj["Driver"],
             enable_ipv6 |-> obj["EnableIPv6"],
             ipam |-> IPAM_deserialize(obj["IPAM"]).val,
             internal |-> obj["Internal"], attachable |-> obj["Attachable"],
             ingress |-> obj["Ingress"],
             containers |-> [c \in DOMAIN obj["Containers"] |->
                 InspectNetworkResultsContainers_deserialize(obj["Containers"][c]).val],
             options |-> obj["Options"], labels |-> obj["Labels"],
             config_from |-> obj["ConfigFrom"], config_only |-> obj["ConfigOnly"]])
    ELSE Err(DecodeError)

(***************************************************************************)
(* How the future of process_into_value / process_into_unit resolves on    *)
(* the transport's answer: a transport failure, an error status, or a      *)
(* success status whose body is decoded as the expected type.              *)
(***************************************************************************)
decode_response(expect, resp) ==
    IF resp.kind = "transport" THEN Err([kind |-> "TransportError"])
    ELSE IF resp.status >= 400
    THEN Err([kind |-> "ApiError", status |-> resp.status, message |-> resp.body["message"]])
    ELSE CASE expect = "unit" -> Ok("unit")
           [] expect = "CreateNetworkResults" -> CreateNetworkResults_deserialize(resp.body)
           [] expect = "InspectNetworkResults" -> InspectNetworkResults_deserialize(resp.body)

\* the outcome of a Docker future: the error of the request that could not
\* be built, or the decoded answer to the request that was sent
resolve(fut, resp) == IF ~fut.req.ok THEN fut.req ELSE decode_response(fut.expect, resp)

(***************************************************************************)
(* impl DockerChain: each operation takes self by value, calls the         *)
(* operation of self.inner and maps its result to (self, result).          *)
(***************************************************************************)
DockerChain_create_network(self, config) ==
    [inner_fut |-> Docker_create_network(self.inner, config), captured |-> self]

\* mutant: the wrapper calls another operation of the session
DockerChain_remove_network_as_inspect(self, network_name) ==
    [inner_fut |-> Docker_inspect_network(self.inner, network_name, None), captured |-> self]

DockerChain_remove_network(self, network_name) ==
    [inner_fut |-> Docker_remove_network(self.inner, network_name), captured |-> self]

DockerChain_inspect_network(self, network_name, options) ==
    [inner_fut |-> Docker_inspect_network(self.inner, network_name, options), captured |-> self]

\* Future::map(|result| (self, result)): the closure runs on success only;
\* on an error the closure, and the handle it owns, are dropped
\* mutant: the handle is paired with the outcome whatever it is
map_result_always(cfut, result) ==
    IF result.ok THEN Ok(<<cfut.captured, result.val>>) ELSE Ok(<<cfut.captured, result.err>>)

map_result(cfut, result) ==
    IF result.ok THEN Ok(<<cfut.captured, result.val>>) ELSE result

\* the caller's handle once a method taking `self` by value has been called
\* mutant: the method borrows the handle (&self) and the caller keeps it
DockerChain_borrowed(c) == c

DockerChain_moved(c) == [c EXCEPT !.state = "moved"]

(***************************************************************************)
(* The inputs: the arguments a caller passes and the answers of the daemon. *)
(***************************************************************************)
Sessions == {1, 2}

Names == {<<"my_network_name">>, <<"a", "/", "b">>, <<"a", "?", "b", "#", "%">>}

Perms(K) == {o \in [1..Cardinality(K) -> K] : \A i, j \in DOMAIN o : o[i] = o[j] => i = j}

HashMaps ==
    UNION {{[entries |-> [k \in K |-> "1"], order |-> o] : o \in Perms(K)} :
               K \in {{}, {"a"}, {"a", "b"}}}

CreateConfigs ==
    {[name |-> "certs", check_duplicate |-> FALSE, driver |-> "", internal |-> FALSE,
      attachable |-> FALSE, ingress |-> FALSE, ipam |-> IPAM_default,
      enable_ipv6 |-> FALSE, options |-> o, labels |-> l] :
         o \in HashMaps, l \in HashMaps}

InspectOptions ==
    {None} \cup {Some([impl |-> i, verbose |-> v, scope |-> sc]) :
                     i \in {"str", "String"}, v \in BOOLEAN, sc \in {"", "global"}}

Args ==
    {[op |-> "create", config |-> c] : c \in CreateConfigs}
    \cup {[op |-> "remove", name |-> n] : n \in Names}
    \cup {[op |-> "inspect", name |-> n, options |-> o] : n \in Names, o \in InspectOptions}

\* the arguments of the runs in which the calls are also answered
SessionArgs ==
    {[op |-> "create", config |-> c] :
         c \in {x \in CreateConfigs : x.options = HashMap_default /\ x.labels = HashMap_default}}
    \cup {[op |-> "remove", name |-> n] : n \in {<<"my_network_name">>, <<"a", "/", "b">>}}
    \cup {[op |-> "inspect", name |-> <<"my_network_name">>, options |-> o] :
              o \in {None, Some([impl |-> "String", verbose |-> TRUE, scope |-> "global"]),
                     Some([impl |-> "str", verbose |-> FALSE, scope |-> ""])}}

With(obj, k, v) == [x \in DOMAIN obj \cup {k} |-> IF x = k THEN v ELSE obj[x]]
Without(obj, k) == [x \in DOMAIN obj \ {k} |-> obj[x]]

CreateBody == [k \in {"Id", "Warning"} |-> IF k = "Id" THEN "abc123" ELSE ""]

IPAMBody ==
    [k \in {"Driver", "Config", "Options"} |->
        CASE k = "Driver" -> "default"
          [] k = "Config" -> << [q \in {"Subnet"} |-> "10.0.0.0/8"] >>
          [] OTHER -> <<>>]

InspectBody ==
    [k \in InspectNetworkResults_fields |->
        CASE k \in {"EnableIPv6", "Internal", "Attachable", "Ingress", "ConfigOnly"} -> FALSE
          [] k = "IPAM" -> IPAMBody
          [] k = "Containers" ->
                 [c \in {"c1"} |->
                     [q \in {"Name", "EndpointID", "MacAddress", "IPv4Address", "IPv6Address"} |-> "x"]]
          [] k \in {"Options", "Labels", "ConfigFrom"} -> <<>>
          [] OTHER -> "x"]

\* the success bodies the daemon may answer an operation with
Bodies(expect) ==
    CASE expect = "unit" -> {<<>>, [k \in {"note"} |-> "x"]}
      [] expect = "CreateNetworkResults" ->
             {CreateBody, With(CreateBody, "Extra", "x"), Without(CreateBody, "Warning")}
      [] expect = "InspectNetworkResults" ->
             {InspectBody, With(InspectBody, "Extra", "x"), Without(InspectBody, "Name"),
              With(InspectBody, "IPAM", With(IPAMBody, "Extra", "x"))}

Responses(expect) ==
    {[kind |-> "transport"]}
    \cup {[kind |-> "http", status |-> 404, body |-> [k \in {"message"} |-> "network not found"]]}
    \cup {[kind |-> "http", status |-> 200, body |-> b] : b \in Bodies(expect)}

(***************************************************************************)
(* The state machine: a caller starts operations, directly on a Docker     *)
(* session or on the DockerChain it holds, and the transport answers them. *)
(***************************************************************************)
DirectFuture(session, args) ==
    CASE args.op = "create" -> Docker_create_network(session, args.config)
      [] args.op = "remove" -> Docker_remove_network(session, args.name)
      [] args.op = "inspect" -> Docker_inspect_network(session, args.name, args.options)

ChainFuture(self, args) ==
    CASE args.op = "create" -> DockerChain_create_network(self, args.config)
      [] args.op = "remove" -> DockerChain_remove_network(self, args.name)
      [] args.op = "inspect" -> DockerChain_inspect_network(self, args.name, args.options)

Direct(calls) == {c \in calls : c.via = "direct"}
Chained(calls) == {c \in calls : c.via = "chain"}

Init ==
    /\ inflight = {}
    /\ sends = <<>>
    /\ chain \in {[state |-> "held", inner |-> s] : s \in Sessions}
    /\ last = [id |-> 0, via |-> "none"]
    /\ chainLog = <<>>

\* docker.op(args) on a session that is used directly: &self, so any number
\* of calls may be in flight
DirectCall(session, args) ==
    /\ Len(sends) < MaxCalls
    /\ session # chain.inner
    /\ LET fut == DirectFuture(session, args) IN
        /\ inflight' = inflight \cup
               {[id |-> Len(sends) + 1, via |-> "direct", args |-> args, fut |-> fut]}
        /\ sends' = Append(sends, Len(fut.reqs))
    /\ UNCHANGED <<chain, last, chainLog>>

\* chain.op(args): the caller must hold the handle, and gives it up
ChainCall(args) ==
    /\ Len(sends) < MaxCalls
    /\ chain.state = "held"
    /\ LET self == [inner |-> chain.inner]
           cfut == ChainFuture(self, args) IN
        /\ inflight' = inflight \cup
               {[id |-> Len(sends) + 1, via |-> "chain", args |-> args, fut |-> cfut]}
        /\ sends' = Append(sends, Len(cfut.inner_fut.reqs))
    /\ chain' = DockerChain_moved(chain)
    /\ UNCHANGED <<last, chainLog>>

\* the future of a direct call resolves
DirectComplete(c, resp) ==
    /\ c \in inflight
    /\ c.via = "direct"
    /\ inflight' = inflight \ {c}
    /\ last' = [id |-> c.id, via |-> "direct", args |-> c.args,
                resp |-> resp, out |-> resolve(c.fut, resp)]
    /\ UNCHANGED <<sends, chain, chainLog>>

\* the future of a chained call resolves: the caller gets (handle, result),
\* or the error alone
ChainComplete(c, resp) ==
    /\ c \in inflight
    /\ c.via = "chain"
    /\ LET out == map_result(c.fut, resolve(c.fut.inner_fut, resp)) IN
        /\ last' = [id |-> c.id, via |-> "chain", args |-> c.args,
                    resp |-> resp, out |-> out]
        /\ chain' = IF out.ok THEN [state |-> "held", inner |-> out.val[1].inner]
                    ELSE [chain EXCEPT !.state = "dropped"]
    /\ inflight' = inflight \ {c}
    /\ chainLog' = Append(chainLog, c.id)
    /\ UNCHANGED sends

Next ==
    \/ \E s \in Sessions, a \in SessionArgs : DirectCall(s, a)
    \/ \E a \in SessionArgs : ChainCall(a)
    \/ \E c \in Direct(inflight) : \E r \in Responses(c.fut.expect) : DirectComplete(c, r)
    \/ \E c \in Chained(inflight) : \E r \in Responses(c.fut.inner_fut.expect) : ChainComplete(c, r)

Spec == Init /\ [][Next]_vars

\* the calls alone, over every argument: what each operation builds
NextBuild == \E s \in Sessions, a \in Args : DirectCall(s, a)

SpecBuild == Init /\ [][NextBuild]_vars

(***************************************************************************)
(* What the claims speak of.                                               *)
(***************************************************************************)
\* text: the atoms of a sequence written out, and the segments of a path
RECURSIVE Concat(_)
Concat(s) == IF s = <<>> THEN "" ELSE Head(s) \o Concat(Tail(s))

RECURSIVE Split(_, _)
\* the segments of a path: the runs of atoms between "/" atoms
Split(p, cur) ==
    IF p = <<>> THEN <<cur>>
    ELSE IF Head(p) = "/" THEN <<cur>> \o Split(Tail(p), <<>>)
    ELSE Split(Tail(p), Append(cur, Head(p)))

\* the segments after the leading "/"
Segments(p) == Tail(Split(p, <<>>))

\* equality of two maps (PartialEq): the same entries, in whatever order
HashMap_eq(m1, m2) == m1.entries = m2.entries

\* structural equality of two option values: field by field, two maps
\* being equal when their entries are
CreateNetworkOptions_eq(c1, c2) ==
    /\ c1.name = c2.name
    /\ c1.check_duplicate = c2.check_duplicate
    /\ c1.driver = c2.driver
    /\ c1.internal = c2.internal
    /\ c1.attachable = c2.attachable
    /\ c1.ingress = c2.ingress
    /\ c1.ipam.driver = c2.ipam.driver
    /\ c1.ipam.config = c2.ipam.config
    /\ HashMap_eq(c1.ipam.options, c2.ipam.options)
    /\ c1.enable_ipv6 = c2.enable_ipv6
    /\ HashMap_eq(c1.options, c2.options)
    /\ HashMap_eq(c1.labels, c2.labels)

\* the calls of one operation whose request is in flight
CallsOf(op) == {c \in Direct(inflight) : c.args.op = op}

\* the request descriptor a direct call handed to the transport
ReqOf(c) == c.fut.req.val

\* inspect calls that were given Some(options)
InspectWithOptions == {c \in CallsOf("inspect") : c.args.options.some}

\* InspectNetworkOptions::default(): verbose false, scope empty
IsDefaultOptions(o) == o.some /\ o.val.verbose = FALSE /\ o.val.scope = ""

CanonicalToken(b) == IF b THEN TRUE_STR ELSE FALSE_STR

SegmentEncode(name) ==
    [i \in 1..Len(name) |-> IF name[i] = "/" THEN "%2F" ELSE PathEncodeAtom(name[i])]

\* C7: for every name given to remove_network or inspect_network the path
\* of the request has exactly the two segments "networks" and the
\* percent-encoded name, and holds no "?" or "#".
C7_NameIsOneSegment ==
    \A c \in CallsOf("remove") \cup CallsOf("inspect") :
        /\ Segments(ReqOf(c).path) = << <<"networks">>, SegmentEncode(c.args.name) >>
        /\ \A i \in DOMAIN ReqOf(c).path : ReqOf(c).path[i] \notin {"?", "#"}

\* structural equality of the arguments of two calls
ArgsEq(a1, a2) ==
    /\ a1.op = a2.op
    /\ CASE a1.op = "create" -> CreateNetworkOptions_eq(a1.config, a2.config)
         [] a1.op = "remove" -> a1.name = a2.name
         [] a1.op = "inspect" -> a1.name = a2.name /\ a1.options = a2.options

\* C8: two calls with structurally equal arguments build identical request
\* descriptors (method, path, query pairs and body bytes).
C8_Deterministic ==
    \A c1, c2 \in Direct(inflight) :
        ArgsEq(c1.args, c2.args) => ReqOf(c1) = ReqOf(c2)

\* the request line a descriptor is sent as: method, path, and the query
\* pairs as ?k=v&k2=v2
RECURSIVE QueryString(_)
QueryString(q) ==
    IF q = <<>> THEN ""
    ELSE Head(q)[1] \o "=" \o Head(q)[2]
         \o (IF Tail(q) = <<>> THEN "" ELSE "&" \o QueryString(Tail(q)))

RequestLine(r) ==
    r.method \o " " \o Concat(r.path)
    \o (IF r.query = <<>> THEN "" ELSE "?" \o QueryString(r.query))

\* C9: inspect_network(name, Some(options)) builds a GET request for
\* /networks/<name> with the pairs ("verbose", token), ("scope", value) in
\* that order and an empty body; for "my_network_name", verbose = true and
\* scope = "global" it is GET /networks/my_network_name?verbose=true&scope=global;
\* with None the request carries no pairs.
C9_InspectRequest ==
    \A c \in CallsOf("inspect") :
        LET r == ReqOf(c)
            o == c.args.options IN
        /\ c.fut.req.ok
        /\ r.method = "GET"
        /\ r.body = [kind |-> "empty"]
        /\ Concat(r.path) = "/networks/" \o Concat(PathEncode(c.args.name))
        /\ o.some =>
               r.query = << <<"verbose", IF o.val.verbose THEN "true" ELSE "false">>,
                            <<"scope", o.val.scope>> >>
        /\ ~o.some => r.query = <<>>
        /\ (c.args.name = <<"my_network_name">> /\ o.some /\ o.val.verbose
                /\ o.val.scope = "global") =>
               RequestLine(r) = "GET /networks/my_network_name?verbose=true&scope=global"
        /\ (c.args.name = <<"my_network_name">> /\ ~o.some) =>
               RequestLine(r) = "GET /networks/my_network_name"

C9_Witness ==
    /\ \E c \in CallsOf("inspect") :
           /\ c.args.name = <<"my_network_name">>
           /\ c.args.options.some
           /\ c.args.options.val.verbose
           /\ c.args.options.val.scope = "global"
           /\ Len(ReqOf(c).query) = 2
    /\ \E c \in CallsOf("inspect") : ~c.args.options.some /\ ReqOf(c).query = <<>>

\* the handle the chained calls are made on
Handle == [inner |-> chain.inner]

RECURSIVE Increasing(_)
Increasing(s) == Len(s) < 2 \/ (s[1] < s[2] /\ Increasing(Tail(s)))

\* C4: at most one operation of a chain is in flight, the caller holds no
\* handle while it is, and the chained operations resolve in the order
\* they were started.
C4_OneInFlight ==
    /\ Cardinality(Chained(inflight)) <= 1
    /\ Chained(inflight) # {} => chain.state = "moved"
    /\ Increasing(chainLog)
    /\ \A c \in Chained(inflight) : \A i \in DOMAIN chainLog : chainLog[i] < c.id

C4_Witness ==
    /\ chainLog = <<1>>
    /\ \E c \in Chained(inflight) : c.id = 2

\* a success answer whose JSON body carries a key outside the closed schema
\* of the result type
HasUnknownField(op, resp) ==
    /\ resp.kind = "http"
    /\ resp.status < 400
    /\ \/ op = "create" /\ DOMAIN resp.body \ {"Id", "Warning"} # {}
       \/ op = "inspect" /\ DOMAIN resp.body \ InspectNetworkResults_fields # {}
       \/ op = "inspect" /\ "IPAM" \in DOMAIN resp.body
              /\ DOMAIN resp.body["IPAM"] \ {"Driver", "Config", "Options"} # {}

\* C5: create_network and inspect_network fail with a decode error, which
\* is not the ApiError of an error status, on a success answer whose body
\* carries an unknown field.
C5_UnknownFieldRejected ==
    (last.via # "none" /\ HasUnknownField(last.args.op, last.resp)) =>
        /\ ~last.out.ok
        /\ last.out.err.kind = "DecodeError"
        /\ last.out.err.kind # "ApiError"

C5_Witness ==
    /\ last.via = "direct"
    /\ last.args.op = "create"
    /\ last.resp.kind = "http"
    /\ last.resp.status = 200
    /\ "Extra" \in DOMAIN last.resp.body
    /\ last.out = Err(DecodeError)

\* C6: every call hands exactly one request to the transport, also once it
\* has failed.
C6_OneRoundTrip ==
    /\ \A id \in DOMAIN sends : sends[id] = 1
    /\ \A c \in Direct(inflight) : Len(c.fut.reqs) = 1
    /\ \A c \in Chained(inflight) : Len(c.fut.inner_fut.reqs) = 1

C6_Witness ==
    /\ last.via # "none"
    /\ ~last.out.ok
    /\ last.args.op = "remove"
    /\ sends[last.id] = 1
    /\ inflight = {}

\* C10: when the wrapped operation of a chained call fails, the call yields
\* the error alone, the handle is gone and nothing more is chained on it.
C10_HandleLostOnFailure ==
    (last.via = "chain" /\ ~resolve(DirectFuture(chain.inner, last.args), last.resp).ok) =>
        /\ ~last.out.ok
        /\ DOMAIN last.out = {"ok", "err"}
        /\ chain.state = "dropped"
        /\ Chained(inflight) = {}
        /\ chainLog[Len(chainLog)] = last.id

C10_Witness ==
    /\ last.via = "chain"
    /\ ~last.out.ok
    /\ chain.state = "dropped"
    /\ chainLog = <<1, 2>>

====
